---- MODULE Spec2Model ----
(***************************************************************************)
(* A model of ynca/receiver.py: the YncaReceiver discovery sequence        *)
(* (_initialize_device), the connection callback (_connection_update),     *)
(* and YncaZone (update dispatch, property setters, activate_scene).       *)
(*                                                                         *)
(* Two threads act on the state: the thread that constructs the receiver   *)
(* (variable pc is its position in _initialize_device and, once that has   *)
(* returned, it is the caller of the public Zone API), and the connection  *)
(* thread, which invokes _connection_update once per received event.       *)
(* Floats are fixed-point integers (hundredths) where they are computed    *)
(* with, and canonical decimal strings where they are only stored.         *)
(***************************************************************************)
EXTENDS Integers, Sequences, FiniteSets, TLC

\* Bounds of the exploration.
MaxEvents == 3
MaxCalls == 1

VARIABLES
    pc,                   \* position of the constructing thread
    initialized_event,    \* YncaReceiver._initialized_event
    modelname,            \* YncaReceiver.modelname
    firmware_version,     \* YncaReceiver.firmware_version
    zones,                \* YncaReceiver.zones: subunit -> YncaZone
    zones_to_initialize,  \* YncaReceiver._zones_to_initialize: a list, or None
    inputs,               \* YncaReceiver.inputs: id -> label
    drain_index,          \* position of the list iterator of the for loop, line 70
    cur_zone,             \* the loop variable `zone` of line 70
    sent,                 \* every get/put handed to the connection, in order
    callback_error,       \* exception raised out of the latest callback, or "None"
    last_call,            \* the latest public Zone call and the exception it raised
    nevents,              \* callbacks delivered so far
    ncalls,               \* public Zone calls made so far
    \* history of the run, read by the properties only
    availSeen,            \* zone ids for which an OK AVAIL event was delivered
    availInTime,          \* ... delivered before the for loop was exhausted
    firstOK,              \* zone ids in the order of their first OK event
    availAtVersion,       \* availSeen when the first OK SYS VERSION arrived
    pcAtVersion,          \* pc when the first OK SYS VERSION arrived
    phase1,               \* outcome of the wait of line 66
    pendingAtTimeout,     \* the pending list when that wait timed out
    log                   \* constructions and returned initialize() calls, in order

vars == <<pc, initialized_event, modelname, firmware_version, zones,
          zones_to_initialize, inputs, drain_index, cur_zone, sent,
          callback_error, last_call, nevents, ncalls,
          availSeen, availInTime, firstOK, availAtVersion, pcAtVersion, phase1,
          pendingAtTimeout, log>>

receiverVars == <<initialized_event, modelname, firmware_version, zones,
                  zones_to_initialize, inputs>>
threadVars == <<pc, drain_index, cur_zone>>
historyVars == <<availSeen, availInTime, firstOK, availAtVersion, pcAtVersion, phase1,
                 pendingAtTimeout, log>>

Range(s) == {s[i] : i \in DOMAIN s}

\* Python's None where a string is stored, and where the pending list is stored.
NoneStr == "None"
None == <<"None">>
\* An empty dict.
EmptyDict == <<>>

-----------------------------------------------------------------------------
(* Class tables *)

OK == "OK"
ERROR == "ERROR"

all_zones == <<"MAIN", "ZONE2", "ZONE3", "ZONE4">>

\* The keys of _subunit_input_mapping in definition order (dict iteration order).
subunit_input_keys ==
    <<"TUN", "SIRIUS", "IPOD", "BT", "RHAP", "SIRIUSIR", "PANDORA", "NAPSTER",
      "PC", "NETRADIO", "IPODUSB", "UAW">>

subunit_input_mapping ==
    [s \in Range(subunit_input_keys) |->
        CASE s = "TUN" -> "TUNER"
          [] s = "SIRIUS" -> "SIRIUS"
          [] s = "IPOD" -> "iPod"
          [] s = "BT" -> "Bluetooth"
          [] s = "RHAP" -> "Rhapsody"
          [] s = "SIRIUSIR" -> "SIRIUS InternetRadio"
          [] s = "PANDORA" -> "Pandora"
          [] s = "NAPSTER" -> "Napster"
          [] s = "PC" -> "PC"
          [] s = "NETRADIO" -> "NET RADIO"
          [] s = "IPODUSB" -> "iPod (USB)"
          [] s = "UAW" -> "UAW"]

Mute == {"on", "att_minus_20", "att_minus_40", "off"}

DspSoundPrograms ==
    <<"Hall in Munich", "Hall in Vienna", "Chamber", "Cellar Club",
      "The Roxy Theatre", "The Bottom Line", "Sports", "Action Game",
      "Roleplaying Game", "Music Video", "Standard", "Spectacle", "Sci-Fi",
      "Adventure", "Drama", "Mono Movie", "2ch Stereo", "7ch Stereo",
      "Surround Decoder">>

-----------------------------------------------------------------------------
(* Strings.  TLC's strings are atomic, so a function name is taken apart   *)
(* through the table of its characters.                                    *)

Chars(s) ==
    CASE s = "AVAIL" -> <<"A", "V", "A", "I", "L">>
      [] s = "VERSION" -> <<"V", "E", "R", "S", "I", "O", "N">>
      [] s = "MODELNAME" -> <<"M", "O", "D", "E", "L", "N", "A", "M", "E">>
      [] s = "INPNAMEHDMI1" ->
            <<"I", "N", "P", "N", "A", "M", "E", "H", "D", "M", "I", "1">>
      [] s = "ZONENAME" -> <<"Z", "O", "N", "E", "N", "A", "M", "E">>
      [] s = "VOL" -> <<"V", "O", "L">>
      [] s = "MAXVOL" -> <<"M", "A", "X", "V", "O", "L">>
      [] s = "PWR" -> <<"P", "W", "R">>
      [] s = "MUTE" -> <<"M", "U", "T", "E">>
      [] s = "INP" -> <<"I", "N", "P">>
      [] s = "SOUNDPRG" -> <<"S", "O", "U", "N", "D", "P", "R", "G">>
      [] s = "STRAIGHT" -> <<"S", "T", "R", "A", "I", "G", "H", "T">>
      [] s = "SCENE1NAME" -> <<"S", "C", "E", "N", "E", "1", "N", "A", "M", "E">>
      [] s = "SCENE4NAME" -> <<"S", "C", "E", "N", "E", "4", "N", "A", "M", "E">>
      [] s = "SCENE9NAME" -> <<"S", "C", "E", "N", "E", "9", "N", "A", "M", "E">>
      [] s = "SCENEXNAME" -> <<"S", "C", "E", "N", "E", "X", "N", "A", "M", "E">>
      [] s = "INPNAME" -> <<"I", "N", "P", "N", "A", "M", "E">>
      [] s = "SCENE" -> <<"S", "C", "E", "N", "E">>
      [] s = "NAME" -> <<"N", "A", "M", "E">>

RECURSIVE Join(_)
Join(cs) == IF cs = <<>> THEN "" ELSE Head(cs) \o Join(Tail(cs))

\* str.lower() on one character.
LowerChar(c) ==
    CASE c = "A" -> "a" [] c = "B" -> "b" [] c = "C" -> "c" [] c = "D" -> "d"
      [] c = "E" -> "e" [] c = "F" -> "f" [] c = "G" -> "g" [] c = "H" -> "h"
      [] c = "I" -> "i" [] c = "J" -> "j" [] c = "K" -> "k" [] c = "L" -> "l"
      [] c = "M" -> "m" [] c = "N" -> "n" [] c = "O" -> "o" [] c = "P" -> "p"
      [] c = "Q" -> "q" [] c = "R" -> "r" [] c = "S" -> "s" [] c = "T" -> "t"
      [] c = "U" -> "u" [] c = "V" -> "v" [] c = "W" -> "w" [] c = "X" -> "x"
      [] c = "Y" -> "y" [] c = "Z" -> "z" [] OTHER -> c

Lower(s) == Join([i \in DOMAIN Chars(s) |-> LowerChar(Chars(s)[i])])

StartsWith(s, prefix) ==
    /\ Len(Chars(s)) >= Len(Chars(prefix))
    /\ SubSeq(Chars(s), 1, Len(Chars(prefix))) = Chars(prefix)

EndsWith(s, suffix) ==
    /\ Len(Chars(s)) >= Len(Chars(suffix))
    /\ SubSeq(Chars(s), Len(Chars(s)) - Len(Chars(suffix)) + 1, Len(Chars(s)))
         = Chars(suffix)

\* s[from:] and s[from:to] of Python (0-based, `to` exclusive).
SliceFrom(s, from) == Join(SubSeq(Chars(s), from + 1, Len(Chars(s))))
Slice(s, from, to) == Join(SubSeq(Chars(s), from + 1, to))

\* int(s) of a one-character string: the digit, or ValueError.
IsIntLiteral(s) == s \in {"0", "1", "2", "3", "4", "5", "6", "7", "8", "9"}
IntOf(s) ==
    CASE s = "0" -> 0 [] s = "1" -> 1 [] s = "2" -> 2 [] s = "3" -> 3
      [] s = "4" -> 4 [] s = "5" -> 5 [] s = "6" -> 6 [] s = "7" -> 7
      [] s = "8" -> 8 [] s = "9" -> 9

\* float(s) for the values the events carry: the float, written canonically
\* (repr), or ValueError for a string that is no number.
IsFloatLiteral(s) == s \in {"-20.5", "-30.0", "5", "16.5", "0.0"}
FloatOf(s) ==
    CASE s = "-20.5" -> "-20.5"
      [] s = "-30.0" -> "-30.0"
      [] s = "5" -> "5.0"
      [] s = "16.5" -> "16.5"
      [] s = "0.0" -> "0.0"

-----------------------------------------------------------------------------
(* number_to_string_with_stepsize.  value and stepsize are in hundredths.  *)

Abs(n) == IF n < 0 THEN -n ELSE n
Sign(n) == IF n < 0 THEN -1 ELSE 1

RECURSIVE Pow10(_)
Pow10(n) == IF n = 0 THEN 1 ELSE 10 * Pow10(n - 1)

\* round(n / d) of Python 3 for d > 0: to the nearest integer, a tie to the even one.
PyRound(n, d) ==
    LET q == n \div d          \* floor
        r == n % d             \* 0 <= r < d
    IN  IF 2 * r < d THEN q
        ELSE IF 2 * r > d THEN q + 1
        ELSE IF q % 2 = 0 THEN q ELSE q + 1

number_to_string_with_stepsize(value, decimals, stepsize) ==
    LET steps == PyRound(value, stepsize)
        stepped_value == steps * stepsize
        \* modf: both parts carry the sign of stepped_value
        before_the_point == Sign(stepped_value) * (Abs(stepped_value) \div 100)
        after_the_point == Sign(stepped_value) * (Abs(stepped_value) % 100)
        \* abs(after_the_point * 10 ** decimals), then int(): truncation
        after_scaled == (Abs(after_the_point * Pow10(decimals))) \div 100
    IN  ToString(before_the_point) \o "." \o ToString(after_scaled)

-----------------------------------------------------------------------------
(* class YncaZone *)

\* YncaZone.__init__.  id tells one constructed object from the next one
\* constructed for the same subunit.
YncaZone(zone, id) ==
    [id |-> id,
     subunit |-> zone,
     initialized_event |-> FALSE,
     name |-> NoneStr,
     input |-> NoneStr,
     power |-> FALSE,
     volume |-> NoneStr,
     max_volume |-> "16.5",
     mute |-> NoneStr,
     dsp_sound_program |-> NoneStr,
     scenes |-> EmptyDict,
     handler_cache |-> {}]

\* The property fields of a Zone (what the public getters and attributes show).
Fields(z) ==
    <<z.power, z.volume, z.max_volume, z.mute, z.input, z.dsp_sound_program,
      z.name, z.scenes>>

\* The outcome of a call on a Zone: the Zone after it and the exception raised.
Returned(z) == [zone |-> z, raised |-> NoneStr]
Raised(z, exc) == [zone |-> z, raised |-> exc]

_get(subunit, function) == [kind |-> "get", subunit |-> subunit, function |-> function]
_put(subunit, function, value) ==
    [kind |-> "put", subunit |-> subunit, function |-> function, value |-> value]

\* The queries of YncaZone.initialize, in issue order.
initialize_gets(zone) ==
    <<_get(zone, "BASIC"), _get(zone, "MAXVOL"), _get(zone, "SCENENAME"),
      _get(zone, "ZONENAME")>>

_handle_inp(z, value) == Returned([z EXCEPT !.input = value])

\* A variant in which any handled update releases the Zone's barrier.
_handle_vol_releases(z, value) ==
    IF IsFloatLiteral(value)
    THEN Returned([z EXCEPT !.volume = FloatOf(value), !.initialized_event = TRUE])
    ELSE Raised(z, "ValueError")

_handle_vol(z, value) ==
    IF IsFloatLiteral(value)
    THEN Returned([z EXCEPT !.volume = FloatOf(value)])
    ELSE Raised(z, "ValueError")

_handle_maxvol(z, value) ==
    IF IsFloatLiteral(value)
    THEN Returned([z EXCEPT !.max_volume = FloatOf(value)])
    ELSE Raised(z, "ValueError")

_handle_mute(z, value) ==
    IF value = "Off" THEN Returned([z EXCEPT !.mute = "off"])
    ELSE IF value = "Att -20dB" THEN Returned([z EXCEPT !.mute = "att_minus_20"])
    ELSE IF value = "Att -40dB" THEN Returned([z EXCEPT !.mute = "att_minus_40"])
    ELSE Returned([z EXCEPT !.mute = "on"])

\* A variant that flips the power state on "On".
_handle_pwr_toggles(z, value) ==
    IF value = "On"
    THEN Returned([z EXCEPT !.power = ~z.power])
    ELSE Returned([z EXCEPT !.power = FALSE])

_handle_pwr(z, value) ==
    IF value = "On"
    THEN Returned([z EXCEPT !.power = TRUE])
    ELSE Returned([z EXCEPT !.power = FALSE])

_handle_zonename(z, value) ==
    Returned([z EXCEPT !.name = value, !.initialized_event = TRUE])

_handle_soundprg(z, value) == Returned([z EXCEPT !.dsp_sound_program = value])

\* The attributes getattr(self, "_handle_...") finds on a YncaZone.
ZoneHandlers ==
    {"_handle_inp", "_handle_vol", "_handle_maxvol", "_handle_mute",
     "_handle_pwr", "_handle_zonename", "_handle_soundprg"}

CallHandler(attr, z, value) ==
    CASE attr = "_handle_inp" -> _handle_inp(z, value)
      [] attr = "_handle_vol" -> _handle_vol(z, value)
      [] attr = "_handle_maxvol" -> _handle_maxvol(z, value)
      [] attr = "_handle_mute" -> _handle_mute(z, value)
      [] attr = "_handle_pwr" -> _handle_pwr(z, value)
      [] attr = "_handle_zonename" -> _handle_zonename(z, value)
      [] attr = "_handle_soundprg" -> _handle_soundprg(z, value)

\* YncaZone.update.  handler_cache holds the function names looked up so far
\* (what getattr returned for a name is fixed by the name).
update(z, function, value) ==
    LET cached == [z EXCEPT !.handler_cache = @ \cup {function}]
        attr == "_handle_" \o Lower(function)
    IN  IF attr \in ZoneHandlers
        THEN CallHandler(attr, cached, value)
        ELSE IF /\ Len(Chars(function)) = 10
                /\ StartsWith(function, "SCENE")
                /\ EndsWith(function, "NAME")
        THEN IF IsIntLiteral(Slice(function, 5, 6))
             THEN Returned([cached EXCEPT !.scenes =
                      (IntOf(Slice(function, 5, 6)) :> value) @@ @])
             ELSE Raised(cached, "ValueError")
        ELSE Returned(cached)

-----------------------------------------------------------------------------
(* class YncaReceiver *)

NoCall == [call |-> NoneStr, zone |-> NoneStr, arg |-> NoneStr, raised |-> NoneStr]

\* The state after the assignments of YncaReceiver.__init__ (lines 34-42),
\* before it calls _initialize_device.
Init ==
    /\ pc = "start"
    /\ initialized_event = FALSE
    /\ modelname = NoneStr
    /\ firmware_version = NoneStr
    /\ zones = EmptyDict
    /\ zones_to_initialize = <<>>
    /\ inputs = EmptyDict
    /\ drain_index = 0
    /\ cur_zone = NoneStr
    /\ sent = <<>>
    /\ callback_error = NoneStr
    /\ last_call = NoCall
    /\ nevents = 0
    /\ ncalls = 0
    /\ availSeen = {}
    /\ availInTime = {}
    /\ firstOK = <<>>
    /\ availAtVersion = {}
    /\ pcAtVersion = NoneStr
    /\ phase1 = "waiting"
    /\ pendingAtTimeout = <<>>
    /\ log = <<>>

\* The queries of lines 49-65, in issue order.
phase1_gets_version_first ==
    <<_get("SYS", "VERSION"), _get("SYS", "MODELNAME"), _get("SYS", "INPNAME")>>
    \o [i \in DOMAIN subunit_input_keys |-> _get(subunit_input_keys[i], "AVAIL")]
    \o [i \in DOMAIN all_zones |-> _get(all_zones[i], "AVAIL")]
phase1_gets ==
    <<_get("SYS", "MODELNAME"), _get("SYS", "INPNAME")>>
    \o [i \in DOMAIN subunit_input_keys |-> _get(subunit_input_keys[i], "AVAIL")]
    \o [i \in DOMAIN all_zones |-> _get(all_zones[i], "AVAIL")]
    \o <<_get("SYS", "VERSION")>>

\* _initialize_device, lines 48-65: the burst of queries.
issue_phase1 ==
    /\ pc = "start"
    /\ sent' = sent \o phase1_gets
    /\ pc' = "wait1"
    /\ UNCHANGED <<receiverVars, drain_index, cur_zone, callback_error,
                   last_call, nevents, ncalls, historyVars>>

\* A variant that ends discovery as soon as the version reply is in.
phase1_wait_set_skips_drain ==
    /\ pc = "wait1"
    /\ initialized_event
    /\ pc' = "clear"
    /\ phase1' = "released"
    /\ UNCHANGED <<receiverVars, drain_index, cur_zone, sent, callback_error,
                   last_call, nevents, ncalls, availSeen, availInTime, firstOK,
                   availAtVersion, pcAtVersion, pendingAtTimeout, log>>

\* Line 66, the wait returns True: the event is set.
phase1_wait_set ==
    /\ pc = "wait1"
    /\ initialized_event
    /\ pc' = "loop"
    /\ phase1' = "released"
    /\ UNCHANGED <<receiverVars, drain_index, cur_zone, sent, callback_error,
                   last_call, nevents, ncalls, availSeen, availInTime, firstOK,
                   availAtVersion, pcAtVersion, pendingAtTimeout, log>>

\* A variant in which the timeout gives discovery up.
phase1_wait_timeout_aborts ==
    /\ pc = "wait1"
    /\ ~initialized_event
    /\ pc' = "clear"
    /\ phase1' = "timeout"
    /\ pendingAtTimeout' = zones_to_initialize
    /\ UNCHANGED <<receiverVars, drain_index, cur_zone, sent, callback_error,
                   last_call, nevents, ncalls, availSeen, availInTime, firstOK,
                   availAtVersion, pcAtVersion, log>>

\* Lines 66-67, the wait returns False after 10 s: the error is logged and
\* the method goes on.
phase1_wait_timeout ==
    /\ pc = "wait1"
    /\ ~initialized_event
    /\ pc' = "loop"
    /\ phase1' = "timeout"
    /\ pendingAtTimeout' = zones_to_initialize
    /\ UNCHANGED <<receiverVars, drain_index, cur_zone, sent, callback_error,
                   last_call, nevents, ncalls, availSeen, availInTime, firstOK,
                   availAtVersion, pcAtVersion, log>>

\* The list iterator of line 70 has a next element: it compares its position
\* with the present length of the list at every step.
has_next_off_by_one == drain_index < Len(zones_to_initialize) - 1
has_next == drain_index < Len(zones_to_initialize)

\* Lines 70-73 up to the wait inside initialize(): the list iterator yields
\* the next element, the Zone is constructed, stored, and issues its queries;
\* or the iterator is exhausted and the loop ends.
for_zone ==
    /\ pc = "loop"
    /\ IF has_next
       THEN LET zone == zones_to_initialize[drain_index + 1]
                id == Cardinality({i \in DOMAIN log : log[i][1] = "construct"}) + 1
            IN  /\ drain_index' = drain_index + 1
                /\ cur_zone' = zone
                /\ zones' = (zone :> YncaZone(zone, id)) @@ zones
                /\ sent' = sent \o initialize_gets(zone)
                /\ log' = Append(log, <<"construct", zone>>)
                /\ pc' = "zone_wait"
       ELSE /\ pc' = "clear"
            /\ UNCHANGED <<drain_index, cur_zone, zones, sent, log>>
    /\ UNCHANGED <<initialized_event, modelname, firmware_version,
                   zones_to_initialize, inputs, callback_error, last_call,
                   nevents, ncalls, availSeen, availInTime, firstOK,
                   availAtVersion, pcAtVersion, phase1, pendingAtTimeout>>

\* Line 168, the wait returns True: the Zone's event is set.
zone_wait_set ==
    /\ pc = "zone_wait"
    /\ zones[cur_zone].initialized_event
    /\ pc' = "loop"
    /\ log' = Append(log, <<"initialized", cur_zone>>)
    /\ UNCHANGED <<receiverVars, drain_index, cur_zone, sent, callback_error,
                   last_call, nevents, ncalls, availSeen, availInTime, firstOK,
                   availAtVersion, pcAtVersion, phase1, pendingAtTimeout>>

\* A variant of a wait without a timeout.
zone_wait_forever ==
    /\ pc = "zone_wait"
    /\ ~zones[cur_zone].initialized_event
    /\ UNCHANGED vars

\* Lines 168-169, the wait returns False after 2 s: logged, initialize() returns.
zone_wait_timeout ==
    /\ pc = "zone_wait"
    /\ ~zones[cur_zone].initialized_event
    /\ pc' = "loop"
    /\ log' = Append(log, <<"initialized", cur_zone>>)
    /\ UNCHANGED <<receiverVars, drain_index, cur_zone, sent, callback_error,
                   last_call, nevents, ncalls, availSeen, availInTime, firstOK,
                   availAtVersion, pcAtVersion, phase1, pendingAtTimeout>>

\* Lines 74-76: the pending list is discarded and _initialize_device returns.
clear_pending ==
    /\ pc = "clear"
    /\ zones_to_initialize' = None
    /\ pc' = "done"
    /\ UNCHANGED <<initialized_event, modelname, firmware_version, zones,
                   inputs, drain_index, cur_zone, sent, callback_error,
                   last_call, nevents, ncalls, historyVars>>

_initialize_device ==
    \/ issue_phase1
    \/ phase1_wait_set
    \/ phase1_wait_timeout
    \/ for_zone
    \/ zone_wait_set
    \/ zone_wait_timeout
    \/ clear_pending

\* YncaReceiver._update: a success event of subunit SYS.
_update(function, value) ==
    IF function = "MODELNAME"
    THEN /\ modelname' = value
         /\ UNCHANGED <<firmware_version, initialized_event, inputs>>
    ELSE IF function = "VERSION"
    THEN /\ firmware_version' = value
         /\ initialized_event' = TRUE
         /\ UNCHANGED <<modelname, inputs>>
    ELSE IF StartsWith(function, "INPNAME")
    THEN /\ inputs' = (SliceFrom(function, 7) :> value) @@ inputs
         /\ UNCHANGED <<modelname, firmware_version, initialized_event>>
    ELSE UNCHANGED <<modelname, firmware_version, initialized_event, inputs>>

\* What the run's history records of one delivered event.
record_event(status, subunit, function) ==
    LET zoneOK == status = OK /\ subunit \in Range(all_zones)
    IN  /\ availSeen' = IF zoneOK /\ function = "AVAIL"
                        THEN availSeen \cup {subunit} ELSE availSeen
        /\ availInTime' = IF zoneOK /\ function = "AVAIL" /\ pc \notin {"clear", "done"}
                          THEN availInTime \cup {subunit} ELSE availInTime
        /\ firstOK' = IF zoneOK /\ subunit \notin Range(firstOK)
                      THEN Append(firstOK, subunit) ELSE firstOK
        /\ IF /\ status = OK /\ subunit = "SYS"
              /\ function = "VERSION" /\ pcAtVersion = NoneStr
           THEN availAtVersion' = availSeen /\ pcAtVersion' = pc
           ELSE UNCHANGED <<availAtVersion, pcAtVersion>>

\* The branch _connection_update takes, lines 79-88.
route_any_status(status, subunit, function) ==
    IF subunit = "SYS" THEN "sys"
    ELSE IF subunit \in DOMAIN zones THEN "zone"
    ELSE IF subunit \in Range(all_zones) THEN "pending"
    ELSE IF function = "AVAIL" THEN "avail"
    ELSE "drop"
\* A variant that tests the catalog before the zones mapping.
route_catalog_first(status, subunit, function) ==
    IF status = OK
    THEN IF subunit = "SYS" THEN "sys"
         ELSE IF subunit \in Range(all_zones) THEN "pending"
         ELSE IF subunit \in DOMAIN zones THEN "zone"
         ELSE IF function = "AVAIL" THEN "avail"
         ELSE "drop"
    ELSE "drop"
\* A variant without the catalog test of line 84.
route_any_subunit(status, subunit, function) ==
    IF status = OK
    THEN IF subunit = "SYS" THEN "sys"
         ELSE IF subunit \in DOMAIN zones THEN "zone"
         ELSE "pending"
    ELSE "drop"
route(status, subunit, function) ==
    IF status = OK
    THEN IF subunit = "SYS" THEN "sys"
         ELSE IF subunit \in DOMAIN zones THEN "zone"
         ELSE IF subunit \in Range(all_zones) THEN "pending"
         ELSE IF function = "AVAIL" THEN "avail"
         ELSE "drop"
    ELSE "drop"

\* list.append of line 85.
pending_prepend(list, subunit) == <<subunit>> \o list
pending_append(list, subunit) == Append(list, subunit)

\* YncaReceiver._connection_update: one event delivered by the connection thread.
_connection_update(status, subunit, function, value) ==
    /\ nevents < MaxEvents
    /\ nevents' = nevents + 1
    /\ record_event(status, subunit, function)
    /\ LET branch == route(status, subunit, function)
       IN  CASE branch = "sys" ->
                 /\ _update(function, value)
                 /\ callback_error' = NoneStr
                 /\ UNCHANGED <<zones, zones_to_initialize>>
             [] branch = "zone" ->
                 LET r == update(zones[subunit], function, value)
                 IN  /\ zones' = [zones EXCEPT ![subunit] = r.zone]
                     /\ callback_error' = r.raised
                     /\ UNCHANGED <<modelname, firmware_version, initialized_event,
                                    inputs, zones_to_initialize>>
             [] branch = "pending" ->
                 IF zones_to_initialize = None
                 THEN \* None has no attribute append
                      /\ callback_error' = "AttributeError"
                      /\ UNCHANGED receiverVars
                 ELSE /\ zones_to_initialize' = pending_append(zones_to_initialize, subunit)
                      /\ callback_error' = NoneStr
                      /\ UNCHANGED <<modelname, firmware_version, initialized_event,
                                     inputs, zones>>
             [] branch = "avail" ->
                 /\ IF subunit \in DOMAIN subunit_input_mapping
                    THEN inputs' = (subunit_input_mapping[subunit]
                                      :> subunit_input_mapping[subunit]) @@ inputs
                    ELSE UNCHANGED inputs
                 /\ callback_error' = NoneStr
                 /\ UNCHANGED <<modelname, firmware_version, initialized_event,
                                zones, zones_to_initialize>>
             [] branch = "drop" ->
                 /\ callback_error' = NoneStr
                 /\ UNCHANGED receiverVars
    /\ UNCHANGED <<threadVars, sent, last_call, ncalls, phase1,
                   pendingAtTimeout, log>>

-----------------------------------------------------------------------------
(* The public operations of a YncaZone.  The caller holds the receiver     *)
(* only once its constructor, hence _initialize_device, has returned.      *)

\* Arguments the calls are tried with.  A step size is in tenths of a dB.
OnArgs == BOOLEAN
VolumeArgs == {-2030, 24}
StepArgs == {5, 10}
InputArgs == {"HDMI1"}
SoundProgramArgs == {"Standard", "Rock"}
SceneArgs == {1, 5}

\* What every public call shares: a caller that holds the Zone, and what a
\* call never touches.
called(z, call, arg, raised) ==
    /\ pc = "done"
    /\ z \in DOMAIN zones
    /\ ncalls < MaxCalls
    /\ ncalls' = ncalls + 1
    /\ last_call' = [call |-> call, zone |-> z, arg |-> arg, raised |-> raised]
    /\ UNCHANGED <<threadVars, initialized_event, modelname, firmware_version,
                   zones_to_initialize, inputs, callback_error, nevents,
                   historyVars>>

\* YncaZone.on (setter)
on_setter(z, value) ==
    /\ called(z, "on", value, NoneStr)
    /\ sent' = Append(sent, _put(zones[z].subunit, "PWR",
                                 IF value = TRUE THEN "On" ELSE "Standby"))
    /\ UNCHANGED zones

\* YncaZone.muted (setter)
muted_setter(z, value) ==
    /\ called(z, "muted", value, NoneStr)
    /\ sent' = Append(sent, _put(zones[z].subunit, "MUTE",
                   IF value = "off" THEN "Off"
                   ELSE IF value = "att_minus_40" THEN "Att -40 dB"
                   ELSE IF value = "att_minus_20" THEN "Att -20 dB"
                   ELSE "On"))
    /\ UNCHANGED zones

\* A variant that stores the value it sends.
volume_setter_stores(z, value) ==
    /\ called(z, "volume", value, NoneStr)
    /\ sent' = Append(sent, _put(zones[z].subunit, "VOL",
                                 number_to_string_with_stepsize(value, 1, 50)))
    /\ zones' = [zones EXCEPT ![z].volume =
                    number_to_string_with_stepsize(value, 1, 50)]

\* YncaZone.volume (setter); value in hundredths of a dB, stepsize 0.5
volume_setter(z, value) ==
    /\ called(z, "volume", value, NoneStr)
    /\ sent' = Append(sent, _put(zones[z].subunit, "VOL",
                                 number_to_string_with_stepsize(value, 1, 50)))
    /\ UNCHANGED zones

\* YncaZone.volume_up; step_size in tenths: 0.5 is 5, the integers 1, 2, 5
\* are 10, 20, 50
volume_up(z, step_size) ==
    /\ called(z, "volume_up", step_size, NoneStr)
    /\ sent' = Append(sent, _put(zones[z].subunit, "VOL",
                   IF step_size \in {10, 20, 50}
                   THEN "Up " \o ToString(step_size \div 10) \o " dB"
                   ELSE "Up"))
    /\ UNCHANGED zones

\* YncaZone.volume_down
volume_down(z, step_size) ==
    /\ called(z, "volume_down", step_size, NoneStr)
    /\ sent' = Append(sent, _put(zones[z].subunit, "VOL",
                   IF step_size \in {10, 20, 50}
                   THEN "Down " \o ToString(step_size \div 10) \o " dB"
                   ELSE "Down"))
    /\ UNCHANGED zones

\* YncaZone.input (setter)
input_setter(z, value) ==
    /\ called(z, "input", value, NoneStr)
    /\ sent' = Append(sent, _put(zones[z].subunit, "INP", value))
    /\ UNCHANGED zones

\* A variant without the catalog test.
dsp_sound_program_setter_unchecked(z, value) ==
    /\ called(z, "dsp_sound_program", value, NoneStr)
    /\ sent' = Append(sent, _put(zones[z].subunit, "SOUNDPRG", value))
    /\ UNCHANGED zones

\* YncaZone.dsp_sound_program (setter)
dsp_sound_program_setter(z, value) ==
    IF value \in Range(DspSoundPrograms)
    THEN /\ called(z, "dsp_sound_program", value, NoneStr)
         /\ sent' = Append(sent, _put(zones[z].subunit, "SOUNDPRG", value))
         /\ UNCHANGED zones
    ELSE /\ called(z, "dsp_sound_program", value, "ValueError")
         /\ UNCHANGED <<sent, zones>>

\* A variant without the range test on the scene id.
activate_scene_any_id(z, scene_id) ==
    IF z \in DOMAIN zones /\ zones[z].scenes = EmptyDict
    THEN /\ called(z, "activate_scene", scene_id, "ValueError")
         /\ UNCHANGED <<sent, zones>>
    ELSE /\ called(z, "activate_scene", scene_id, NoneStr)
         /\ sent' = Append(sent, _put(zones[z].subunit, "SCENE=Scene {}",
                                      ToString(scene_id)))
         /\ UNCHANGED zones

\* YncaZone.activate_scene.  The put carries the scene id as its value
\* (written here as its decimal string) under the function "SCENE=Scene {}".
activate_scene(z, scene_id) ==
    IF z \in DOMAIN zones /\ zones[z].scenes = EmptyDict
    THEN /\ called(z, "activate_scene", scene_id, "ValueError")
         /\ UNCHANGED <<sent, zones>>
    ELSE IF scene_id \notin {1, 2, 3, 4}
    THEN /\ called(z, "activate_scene", scene_id, "ValueError")
         /\ UNCHANGED <<sent, zones>>
    ELSE /\ called(z, "activate_scene", scene_id, NoneStr)
         /\ sent' = Append(sent, _put(zones[z].subunit, "SCENE=Scene {}",
                                      ToString(scene_id)))
         /\ UNCHANGED zones

\* Any public call on Zone z.
zone_call(z) ==
    \/ \E value \in OnArgs : on_setter(z, value)
    \/ \E value \in Mute : muted_setter(z, value)
    \/ \E value \in VolumeArgs : volume_setter(z, value)
    \/ \E step_size \in StepArgs : volume_up(z, step_size)
    \/ \E step_size \in StepArgs : volume_down(z, step_size)
    \/ \E value \in InputArgs : input_setter(z, value)
    \/ \E value \in SoundProgramArgs : dsp_sound_program_setter(z, value)
    \/ \E scene_id \in SceneArgs : activate_scene(z, scene_id)

-----------------------------------------------------------------------------
(* Events the connection delivers, and the specifications *)

\* Events of a discovery run: replies to the probes, failed probes, and
\* unsolicited updates.
DiscoveryEvents ==
    {<<OK, "SYS", "VERSION", "1.98">>,
     <<OK, "SYS", "MODELNAME", "RX-V473">>,
     <<OK, "SYS", "INPNAMEHDMI1", "TV">>,
     <<OK, "MAIN", "AVAIL", "Ready">>,
     <<OK, "ZONE2", "AVAIL", "Ready">>,
     <<OK, "ZONE3", "AVAIL", "Not Ready">>,
     <<OK, "ZONE4", "AVAIL", "Ready">>,
     <<ERROR, "ZONE3", "AVAIL", "">>,
     <<OK, "MAIN", "PWR", "On">>,
     <<OK, "MAIN", "ZONENAME", "Living">>,
     <<OK, "TUN", "AVAIL", "Ready">>,
     <<OK, "XX", "AVAIL", "Ready">>,
     <<OK, "TUN", "PRESET", "1">>,
     <<ERROR, "SYS", "VERSION", "">>}

\* Events of a run that discovers MAIN and then uses it.
ZoneEvents ==
    {<<OK, "SYS", "VERSION", "1.98">>,
     <<OK, "MAIN", "AVAIL", "Ready">>,
     <<OK, "MAIN", "ZONENAME", "Living">>,
     <<OK, "MAIN", "VOL", "-20.5">>,
     <<OK, "MAIN", "MUTE", "Att -20dB">>,
     <<OK, "MAIN", "SCENE1NAME", "TV">>,
     <<ERROR, "MAIN", "PWR", "">>}

deliver(events) ==
    \E e \in events : _connection_update(e[1], e[2], e[3], e[4])

call_zone == \E z \in Range(all_zones) : zone_call(z)

Next ==
    \/ _initialize_device
    \/ deliver(DiscoveryEvents)

NextZone ==
    \/ _initialize_device
    \/ deliver(ZoneEvents)
    \/ call_zone

\* Discovery under arbitrary event arrival.
Spec == Init /\ [][Next]_vars

\* Discovery of MAIN followed by calls on it.
ZoneSpec == Init /\ [][NextZone]_vars

\* Updates of MAIN: one or more per handler, a malformed number, scene names
\* within and outside the slots, and a function no handler exists for.
UpdateEvents ==
    {<<OK, "SYS", "VERSION", "1.98">>,
     <<OK, "MAIN", "AVAIL", "Ready">>,
     <<OK, "MAIN", "ZONENAME", "Living">>,
     <<OK, "MAIN", "INP", "HDMI1">>,
     <<OK, "MAIN", "VOL", "-20.5">>,
     <<OK, "MAIN", "VOL", "abc">>,
     <<OK, "MAIN", "MAXVOL", "5">>,
     <<OK, "MAIN", "MUTE", "Off">>,
     <<OK, "MAIN", "MUTE", "Att -20dB">>,
     <<OK, "MAIN", "MUTE", "Att -20 dB">>,
     <<OK, "MAIN", "PWR", "On">>,
     <<OK, "MAIN", "PWR", "Standby">>,
     <<OK, "MAIN", "SOUNDPRG", "Standard">>,
     <<OK, "MAIN", "SCENE1NAME", "TV">>,
     <<OK, "MAIN", "SCENE9NAME", "Radio">>,
     <<OK, "MAIN", "SCENEXNAME", "Game">>,
     <<OK, "MAIN", "STRAIGHT", "On">>}

NextUpdate ==
    \/ _initialize_device
    \/ deliver(UpdateEvents)

\* Discovery of MAIN under a stream of its updates.
UpdateSpec == Init /\ [][NextUpdate]_vars

\* Events of a run that discovers MAIN, and volumes (in hundredths of a dB)
\* given to its setter: negative and positive ones, ties between two steps,
\* and values whose nearest step lies between -1 and 0.
CodecEvents ==
    {<<OK, "SYS", "VERSION", "1.98">>,
     <<OK, "MAIN", "AVAIL", "Ready">>,
     <<OK, "MAIN", "ZONENAME", "Living">>}
CodecValues ==
    {-2030, -130, -100, -75, -74, -50, -30, -26, -25, -24, 0, 24, 25, 50, 326}

NextCodec ==
    \/ _initialize_device
    \/ deliver(CodecEvents)
    \/ \E value \in CodecValues : volume_setter("MAIN", value)

\* Discovery of MAIN followed by volume settings.
CodecSpec == Init /\ [][NextCodec]_vars

\* Events of a discovery run in which MAIN and ZONE2 may answer.
LiveEvents ==
    {<<OK, "SYS", "VERSION", "1.98">>,
     <<OK, "MAIN", "AVAIL", "Ready">>,
     <<OK, "ZONE2", "AVAIL", "Ready">>,
     <<ERROR, "ZONE3", "AVAIL", "">>,
     <<OK, "MAIN", "PWR", "On">>,
     <<OK, "MAIN", "ZONENAME", "Living">>}

NextLive ==
    \/ _initialize_device
    \/ deliver(LiveEvents)

\* Both waits of _initialize_device are bounded by a timeout and nothing else
\* in it blocks, so the constructing thread always takes its next step.  The
\* connection is under no obligation: an event may never arrive.
FairSpec == Init /\ [][NextLive]_vars /\ WF_vars(_initialize_device)

-----------------------------------------------------------------------------
(* Properties of discovery *)

ZoneIds == Range(all_zones)
AllEvents ==
    DiscoveryEvents \cup ZoneEvents \cup LiveEvents \cup UpdateEvents \cup CodecEvents

\* The index of the first occurrence of x in seq.
FirstIndex(seq, x) ==
    CHOOSE i \in DOMAIN seq : seq[i] = x /\ \A j \in 1..(i - 1) : seq[j] # x

Constructions(z) == {i \in DOMAIN log : log[i] = <<"construct", z>>}

\* C1, as stated: every key of zones is a catalog zone identifier for which
\* a success reply to its AVAIL probe was delivered earlier.
C1_ZonesOnlyAfterAvail ==
    \A z \in DOMAIN zones : z \in ZoneIds /\ z \in availSeen

\* C1, amended: every key of zones, and every Zone ever constructed, belongs
\* to a catalog zone identifier for which a success-status event (of any
\* function) was delivered earlier.
C1_ZonesOnlyAfterSuccess ==
    /\ \A z \in DOMAIN zones : z \in ZoneIds /\ z \in Range(firstOK)
    /\ \A i \in DOMAIN log : log[i][2] \in ZoneIds /\ log[i][2] \in Range(firstOK)

\* A Zone for MAIN exists although no AVAIL success was ever delivered for it
\* and a failed probe of ZONE3 left no Zone.
C1_Witness ==
    /\ pc = "done"
    /\ "MAIN" \in DOMAIN zones
    /\ "MAIN" \notin availSeen
    /\ "ZONE3" \notin DOMAIN zones

\* C2, as stated: a Zone is eventually present for every catalog zone
\* identifier whose AVAIL success was delivered, at whatever point of the run.
C2_EveryAvailMaterialized ==
    \A z \in ZoneIds : [](z \in availSeen => <>(z \in DOMAIN zones))

\* C2, amended: a Zone is eventually present for every catalog zone
\* identifier whose AVAIL success was delivered before the for loop of
\* _initialize_device found the pending list exhausted.
C2_AvailInTimeMaterialized ==
    \A z \in ZoneIds : [](z \in availInTime => <>(z \in DOMAIN zones))

\* ZONE2 answered after MAIN had been constructed and still got its Zone.
C2_Witness ==
    /\ "ZONE2" \in availInTime
    /\ "ZONE2" \in DOMAIN zones
    /\ availAtVersion = {"MAIN"}
    /\ log = <<<<"construct", "MAIN">>, <<"initialized", "MAIN">>,
               <<"construct", "ZONE2">>>>

\* C3: a Zone is constructed at most once per zone identifier.
C3_OneZonePerId ==
    \A z \in ZoneIds : Cardinality(Constructions(z)) <= 1

\* C4: if the first success event of zone a was delivered before the first
\* success event of zone b, then whenever b's Zone has been constructed, a's
\* Zone was constructed and its initialize() had returned before that.
C4_MaterializationOrder ==
    \A a \in Range(firstOK) : \A b \in Range(firstOK) :
        (/\ FirstIndex(firstOK, a) < FirstIndex(firstOK, b)
         /\ <<"construct", b>> \in Range(log))
        => /\ <<"initialized", a>> \in Range(log)
           /\ FirstIndex(log, <<"construct", a>>)
                < FirstIndex(log, <<"initialized", a>>)
           /\ FirstIndex(log, <<"initialized", a>>)
                < FirstIndex(log, <<"construct", b>>)

\* ZONE2 answered first, MAIN second, and both Zones were constructed.
C4_Witness ==
    /\ firstOK = <<"ZONE2", "MAIN">>
    /\ <<"construct", "MAIN">> \in Range(log)
    /\ <<"construct", "ZONE2">> \in Range(log)

\* The scenario of C5: discovery has finished, MAIN and ZONE2 answered AVAIL
\* with success before the version reply, which arrived before discovery
\* finished, and no other zone ever sent a success event.
C5_Scenario ==
    /\ pc = "done"
    /\ pcAtVersion \notin {NoneStr, "done"}
    /\ {"MAIN", "ZONE2"} \subseteq availAtVersion
    /\ Range(firstOK) = {"MAIN", "ZONE2"}

C6_TimeoutStillMaterializes ==
    /\ [](pc = "done" /\ phase1 = "timeout"
            => \A z \in Range(pendingAtTimeout) :
                  /\ z \in DOMAIN zones
                  /\ <<"initialized", z>> \in Range(log))
    /\ (phase1 = "timeout" ~> pc = "done")

\* The wait timed out with MAIN pending, and discovery has finished.
C6_Witness ==
    /\ pc = "done"
    /\ phase1 = "timeout"
    /\ pendingAtTimeout = <<"MAIN">>
    /\ firmware_version = NoneStr
    /\ "MAIN" \in DOMAIN zones

-----------------------------------------------------------------------------
(* Properties of a Zone *)

\* The same Zone object is stored under z before and after the step.
SameZone(z) ==
    /\ z \in DOMAIN zones
    /\ z \in DOMAIN zones'
    /\ zones'[z].id = zones[z].id

\* The step delivers a success event of the given subunit and function.
Delivers(subunit, function) ==
    \E e \in AllEvents :
        /\ e[1] = OK /\ e[2] = subunit /\ e[3] = function
        /\ _connection_update(e[1], e[2], e[3], e[4])

\* C7: activate_scene on a Zone with no known scene, or with a scene id
\* outside 1..4, raises ValueError, hands nothing to the connection and
\* leaves every Zone as it was.
C7_ActivateSceneRejects ==
    [][\A z \in ZoneIds : \A scene_id \in SceneArgs :
          (/\ activate_scene(z, scene_id)
           /\ (zones[z].scenes = EmptyDict \/ scene_id \notin {1, 2, 3, 4}))
          => /\ last_call'.raised = "ValueError"
             /\ sent' = sent
             /\ zones' = zones]_vars

\* activate_scene(5) was refused on a Zone that knows a scene.
C7_Witness ==
    /\ last_call.call = "activate_scene"
    /\ last_call.arg = 5
    /\ last_call.raised = "ValueError"
    /\ zones[last_call.zone].scenes # EmptyDict
    /\ \A i \in DOMAIN sent : sent[i].kind = "get"

\* C8: the sound-program setter with a name outside DspSoundPrograms raises
\* ValueError, hands nothing to the connection and leaves every Zone as it
\* was; with a name of the catalog it hands exactly one SOUNDPRG put with
\* that name to the connection.
C8_SoundProgramChecked ==
    [][\A z \in ZoneIds : \A value \in SoundProgramArgs :
          dsp_sound_program_setter(z, value)
          => /\ zones' = zones
             /\ IF \E i \in DOMAIN DspSoundPrograms : DspSoundPrograms[i] = value
                THEN /\ last_call'.raised = NoneStr
                     /\ sent' = sent \o <<[kind |-> "put", subunit |-> z,
                                          function |-> "SOUNDPRG", value |-> value]>>
                ELSE /\ last_call'.raised = "ValueError"
                     /\ sent' = sent]_vars

\* The setter refused a name that is not in the catalog.
C8_Witness ==
    /\ last_call.call = "dsp_sound_program"
    /\ last_call.arg = "Rock"
    /\ last_call.raised = "ValueError"
    /\ \A i \in DOMAIN sent : sent[i].kind = "get"

\* C9: a barrier, once set, stays set; the Receiver's barrier becomes set
\* only in a step that delivers a success event of SYS VERSION; the barrier
\* of a Zone becomes set only in a step that delivers a success event of
\* that zone's ZONENAME, and a newly constructed Zone starts with it unset.
C9_BarriersReleasedByTheirUpdate ==
    [][/\ initialized_event => initialized_event'
       /\ (~initialized_event /\ initialized_event') => Delivers("SYS", "VERSION")
       /\ \A z \in DOMAIN zones' :
             IF SameZone(z)
             THEN /\ zones[z].initialized_event => zones'[z].initialized_event
                  /\ (~zones[z].initialized_event /\ zones'[z].initialized_event)
                        => Delivers(z, "ZONENAME")
             ELSE ~zones'[z].initialized_event]_vars

\* MAIN's volume update has arrived and the version reply has released the
\* Receiver, while MAIN's own barrier is still unset.
C9_Witness ==
    /\ initialized_event
    /\ "MAIN" \in DOMAIN zones
    /\ zones["MAIN"].volume # NoneStr
    /\ ~zones["MAIN"].initialized_event

\* C10: a public call on a Zone changes no Zone; a property field of a Zone
\* changes only in a step that delivers a success event of that zone.
C10_SettersOnlySend ==
    [][/\ zones' # zones => ~call_zone
       /\ \A z \in DOMAIN zones :
             (SameZone(z) /\ Fields(zones'[z]) # Fields(zones[z]))
             => \E e \in AllEvents :
                   /\ e[1] = OK /\ e[2] = z
                   /\ _connection_update(e[1], e[2], e[3], e[4])]_vars

\* The volume setter was called with 0.24 on a Zone whose volume, reported
\* as -20.5 by the device, is still -20.5.
C10_Witness ==
    /\ last_call.call = "volume"
    /\ last_call.arg = 24
    /\ zones[last_call.zone].volume = "-20.5"
    /\ sent[Len(sent)] = [kind |-> "put", subunit |-> last_call.zone,
                          function |-> "VOL", value |-> "0.0"]

-----------------------------------------------------------------------------
(* Properties of update dispatch *)

\* C11: for every Zone in every reachable state and every (function, value)
\* update, dispatching the update twice in a row leaves every property field
\* as dispatching it once does.
C11_UpdateIdempotent ==
    \A z \in DOMAIN zones : \A e \in UpdateEvents :
        LET once == update(zones[z], e[3], e[4]).zone
            twice == update(once, e[3], e[4]).zone
        IN  Fields(twice) = Fields(once)

\* MAIN is powered on and muted by updates that arrived, so a repeated PWR or
\* MUTE update meets the state the first one left.
C11_Witness ==
    /\ "MAIN" \in DOMAIN zones
    /\ zones["MAIN"].power
    /\ zones["MAIN"].mute = "on"
    /\ {"PWR", "MUTE"} \subseteq zones["MAIN"].handler_cache

\* C19: every key of a Zone's scene-name mapping is one of the slots 1..4.
C19_SceneKeysAreSlots ==
    \A z \in DOMAIN zones : DOMAIN zones[z].scenes \subseteq 1..4

-----------------------------------------------------------------------------
(* Properties of the routing *)

\* The event matches no routing rule: its status is a failure, or its subunit
\* is neither SYS, nor a catalog zone, nor an internal source reporting AVAIL.
Unrouted(e) ==
    \/ e[1] # OK
    \/ /\ e[2] # "SYS"
       /\ e[2] \notin Range(all_zones)
       /\ ~(e[2] \in DOMAIN subunit_input_mapping /\ e[3] = "AVAIL")

\* C12: delivering an event that matches no routing rule leaves the model
\* name, the firmware version, the inputs, the zones mapping with every
\* Zone's fields and barrier, the pending list and the receiver's barrier
\* unchanged.
C12_UnroutedEventsDropped ==
    [][\A e \in AllEvents :
          (Unrouted(e) /\ _connection_update(e[1], e[2], e[3], e[4]))
              => UNCHANGED receiverVars]_vars

\* Events were delivered before the constructor sent its first query, and the
\* receiver is as it was constructed: each of them was dropped.
C12_Witness ==
    /\ pc = "start" /\ nevents > 1
    /\ modelname = NoneStr /\ firmware_version = NoneStr
    /\ inputs = EmptyDict /\ zones = EmptyDict
    /\ zones_to_initialize = <<>> /\ ~initialized_event

\* C18: a success event of a subunit that has a Zone changes that Zone as its
\* update does and nothing else: every other Zone, the model name, the
\* firmware version, the inputs, the receiver's barrier and the pending list
\* stay as they were.
C18_ForwardedToItsZoneOnly ==
    [][\A e \in AllEvents :
          (/\ e[1] = OK
           /\ e[2] \in DOMAIN zones
           /\ _connection_update(e[1], e[2], e[3], e[4]))
              => /\ UNCHANGED <<modelname, firmware_version, inputs,
                                initialized_event, zones_to_initialize>>
                 /\ DOMAIN zones' = DOMAIN zones
                 /\ \A z \in DOMAIN zones \ {e[2]} : zones'[z] = zones[z]
                 /\ zones'[e[2]] = update(zones[e[2]], e[3], e[4]).zone]_vars

\* ZONE2 was constructed after MAIN and has since been handed an event.
C18_Witness ==
    /\ {"MAIN", "ZONE2"} \subseteq DOMAIN zones
    /\ zones["MAIN"].id < zones["ZONE2"].id
    /\ "AVAIL" \in zones["ZONE2"].handler_cache

-----------------------------------------------------------------------------
(* Properties of the encodings *)

\* The multiples of stepsize nearest to value (two of them at a tie).
NearestSteps(value, stepsize) ==
    LET lo == (value \div stepsize) * stepsize
        hi == lo + stepsize
    IN  IF value = lo THEN {lo}
        ELSE IF value - lo < hi - value THEN {lo}
        ELSE IF value - lo > hi - value THEN {hi}
        ELSE {lo, hi}

\* A number of hundredths written as a signed integer part, a point and one
\* fractional digit.
SignedDecimal(n) ==
    (IF n < 0 THEN "-" ELSE "") \o ToString(Abs(n) \div 100) \o "."
        \o ToString((Abs(n) % 100) \div 10)

\* C13: the string the volume setter sends is the signed decimal of the
\* multiple of 0.5 nearest to the value it was given.
C13_SteppedEncoding ==
    (last_call.call = "volume") =>
        \E n \in NearestSteps(last_call.arg, 50) :
            sent[Len(sent)].value = SignedDecimal(n)

\* C14: the string the mute setter sends for a level, fed back to the Zone as
\* a MUTE update, sets the Zone's mute state to that level.
C14_MuteRoundTrip ==
    (last_call.call = "muted") =>
        update(zones[last_call.zone], "MUTE", sent[Len(sent)].value).zone.mute
            = last_call.arg

-----------------------------------------------------------------------------
(* Properties of discovery *)

\* The queries of the discovery batch other than the one for the version.
DiscoveryProbes ==
    {_get("SYS", "MODELNAME"), _get("SYS", "INPNAME")}
        \cup {_get(s, "AVAIL") : s \in DOMAIN subunit_input_mapping}
        \cup {_get(z, "AVAIL") : z \in Range(all_zones)}

\* C15: once _initialize_device is past its burst of queries (so whenever it
\* waits on the receiver's barrier), every probe has been issued and the
\* VERSION query directly after them; and while it waits on a Zone's barrier
\* the last four queries issued are that Zone's BASIC, MAXVOL and SCENENAME
\* followed by its ZONENAME.
C15_ReleasingQueryIssuedLast ==
    /\ (pc # "start") =>
          LET n == Cardinality(DiscoveryProbes)
          IN  /\ Len(sent) > n
              /\ {sent[i] : i \in 1..n} = DiscoveryProbes
              /\ sent[n + 1] = _get("SYS", "VERSION")
    /\ (pc = "zone_wait") =>
          LET k == Len(sent)
          IN  /\ k > Cardinality(DiscoveryProbes) + 4
              /\ sent[k] = _get(cur_zone, "ZONENAME")
              /\ {sent[i] : i \in (k - 3)..(k - 1)}
                    = {_get(cur_zone, f) : f \in {"BASIC", "MAXVOL", "SCENENAME"}}

\* The constructor waits on the barrier of ZONE2, the second Zone it
\* initializes.
C15_Witness ==
    /\ pc = "zone_wait" /\ cur_zone = "ZONE2"
    /\ "MAIN" \in DOMAIN zones
    /\ ~zones["ZONE2"].initialized_event

\* C16: from the end of the phase-1 wait until the pending list has been
\* discarded, no event delivered by the callback thread changes the list.
C16_PendingOwnedByDrain ==
    [][(pc \in {"loop", "zone_wait", "clear"} /\ nevents' # nevents)
          => zones_to_initialize' = zones_to_initialize]_vars

\* C17: whatever events arrive or fail to arrive, the phase-1 wait ends, every
\* wait inside a Zone's initialize() ends, and _initialize_device reaches its
\* end and stays there.
C17_DiscoveryTerminates ==
    /\ (pc = "wait1") ~> (pc = "loop")
    /\ (pc = "zone_wait") ~> (pc = "loop")
    /\ <>[](pc = "done")

\* Discovery has finished although neither the version reply nor the name
\* of MAIN arrived: both waits ended by their timeout.
C17_Witness ==
    /\ pc = "done"
    /\ phase1 = "timeout"
    /\ ~initialized_event
    /\ "MAIN" \in DOMAIN zones
    /\ ~zones["MAIN"].initialized_event

\* C20: no event delivered to the callback makes it raise, in any phase of
\* the receiver.
C20_CallbackNeverRaises == callback_error = NoneStr

====
